---- MODULE Spec2Model ----
(***************************************************************************)
(* State-machine model of src/cred_checker.py: the scan orchestrator       *)
(* (scan_targets / scan_target), the external-scanner adapter              *)
(* (scan_with_nmap), the credential probe engine (scan_with_custom) and    *)
(* the result store (_save_result and the cache SELECT).                   *)
(*                                                                         *)
(* One task per target runs in a ThreadPoolExecutor; every blocking call   *)
(* or shared access of a task is one atomic step, so the interleavings of  *)
(* the pool's threads are the interleavings of these steps.                *)
(***************************************************************************)
EXTENDS Integers, Sequences, FiniteSets, TLC

\* ------------------------------------------------------------------ bounds
\* number of targets handed to scan_targets
NumTargets == 2
\* length of the prefix of DEFAULT_CREDS that is modelled
NumCreds == 2

\* rows an earlier run left in the Store
MaxPrior == 2

Tasks == 1..NumTargets
Creds == 1..NumCreds

\* --------------------------------------------------------------- constants
\* DEFAULT_CREDS, in list order (its first entries)
DEFAULT_CREDS ==
    << [username |-> "admin", password |-> "admin"],
       [username |-> "admin", password |-> "password"],
       [username |-> "root",  password |-> "root"],
       [username |-> "root",  password |-> "toor"] >>

\* Raw target strings, given by the parts urlparse splits them into.
\* scheme "" : the string has no http:// or https:// prefix
\* port 0    : no port in the string;  port -1 : a port urlparse rejects
Urls ==
    { [scheme |-> "",      host |-> "h1", port |-> 0],
      [scheme |-> "https", host |-> "h2", port |-> 0],
      [scheme |-> "http",  host |-> "h1", port |-> -1] }

NoTarget == [proto |-> "", host |-> "", port |-> 0, path |-> ""]

\* parse_url: prepend http:// when no scheme, default the port by scheme,
\* default the path to "/".  parsed.port raises ValueError on a bad port.
parse_raises(url) == url.port < 0

parse_url(url) ==
    LET proto == IF url.scheme = "" THEN "http" ELSE url.scheme
        port  == IF url.port = 0
                 THEN (IF proto = "https" THEN 443 ELSE 80)
                 ELSE url.port
    IN  [proto |-> proto, host |-> url.host, port |-> port, path |-> "/"]

\* the temp script's file name: temp_<host>_<port>.nse
temp_script(t) == <<t.host, t.port>>

TempFiles == { temp_script(parse_url(u)) : u \in {v \in Urls : ~parse_raises(v)} }

\* ------------------------------------------------------------------- state
VARIABLES
    args,        \* the parsed command line: nmap, custom, no_cache, threads
    env,         \* what the process runs in: httpx importable, and the behaviour
                 \* of the scanner and of the HTTP servers when it is fixed
    targets,     \* the list given to scan_targets
    pc,          \* pc[i]: where task i (scan_target of targets[i]) stands
    target,      \* target[i]: parse_url's result
    result,      \* result[i]: the dict scan_with_nmap / scan_with_custom is filling
    nmap,        \* nmap[i]: results['nmap'] of scan_target
    custom,      \* custom[i]: results['custom'] of scan_target
    cred,        \* cred[i]: index into DEFAULT_CREDS of the probe loop
    store,       \* rows of table scans, in insertion order
    files,       \* files[f]: 0 when temp script f is absent, else the task that wrote it last
    successful,  \* scan_targets' counters
    failed,
    counted,     \* futures as_completed has already yielded
    mainpc,      \* "scanning" until scan_targets returns
    hist         \* history of each task, for stating the properties

vars == << args, env, targets, pc, target, result, nmap, custom, cred,
           store, files, successful, failed, counted, mainpc, hist >>

cfgVars  == << args, env, targets >>
mainVars == << successful, failed, counted, mainpc >>

None == [set |-> FALSE, success |-> FALSE, username |-> "", password |-> "",
         response |-> "", cached |-> FALSE]

\* the dict both scan methods start from: success False, nothing else set
NewResult(u, p) ==
    [set |-> TRUE, success |-> FALSE, username |-> u, password |-> p,
     response |-> "", cached |-> FALSE]

NoHist == [requests |-> 0,    \* GET requests the probe of this task has issued
           okAt     |-> 0,    \* index of the first credential classified success
           nmapEnd  |-> "",   \* how scan_with_nmap ended: "hit" (cache), "saved"
                              \* (returned after its INSERT) or "raised"
           verdict  |-> ""]   \* how scan_targets counted the task

\* what nmap prints when it runs to its end with the temp script in place:
\* a finding with a user:pass pair, a finding without one, no finding
ScanOutputs == {"creds", "bare", "nothing"}
\* how line 256 can end: with output, by TimeoutExpired, by another exception
ScanBehaviours == ScanOutputs \cup {"Timeout", "Error"}
\* how one GET can end: 200 with a marker, any other answer, an exception
HttpBehaviours == {"ok", "reject", "error"}

\* The environment nobody constrains: every call may end in any way.
FreeEnv(h) ==
    [httpx |-> h, fixed |-> FALSE, prep |-> TRUE,
     scan |-> [f \in TempFiles |-> "nothing"],
     http |-> [c \in Creds |-> "reject"]]

\* An environment of fixed behaviour: the scanner script is readable or not,
\* the scanner ends the same way whenever it is run on a host and port, the
\* servers answer a credential the same way every time.
FixedEnvs ==
    [httpx : BOOLEAN, fixed : {TRUE}, prep : BOOLEAN,
     scan : [TempFiles -> ScanBehaviours],
     http : [Creds -> HttpBehaviours]]

InitRest ==
    /\ pc = [i \in Tasks |-> "queued"]
    /\ target = [i \in Tasks |-> NoTarget]
    /\ result = [i \in Tasks |-> None]
    /\ nmap = [i \in Tasks |-> None]
    /\ custom = [i \in Tasks |-> << >>]
    /\ cred = [i \in Tasks |-> 0]
    /\ store = << >>
    /\ files = [f \in TempFiles |-> 0]
    /\ successful = 0
    /\ failed = 0
    /\ counted = {}
    /\ mainpc = "scanning"
    /\ hist = [i \in Tasks |-> NoHist]

Init ==
    /\ args \in [nmap : BOOLEAN, custom : BOOLEAN, no_cache : BOOLEAN,
                 threads : {1, NumTargets}]
    /\ env \in { FreeEnv(h) : h \in BOOLEAN }
    /\ targets \in [Tasks -> Urls]
    /\ InitRest

\* ------------------------------------------------------------ Result Store
\* _save_result: one INSERT, stamped datetime.now() (a later INSERT carries a
\* later stamp)
Stamp == Len(store) + 1

Row(t, method, r, ts) ==
    [host |-> t.host, port |-> t.port, proto |-> t.proto, method |-> method,
     username |-> r.username, password |-> r.password, success |-> r.success,
     response |-> r.response, ts |-> ts]

save_result(t, method, r) == Append(store, Row(t, method, r, Stamp))

\* the cache SELECT: rows of this host, port, proto and method 'nmap-nse',
\* ORDER BY timestamp DESC LIMIT 1
Matching(t) ==
    { k \in DOMAIN store :
        /\ store[k].host = t.host
        /\ store[k].port = t.port
        /\ store[k].proto = t.proto
        /\ store[k].method = "nmap-nse" }

\* mutant: the row inserted last instead of the row stamped last
Latest_lastInserted(t) ==
    { k \in Matching(t) : \A j \in Matching(t) : j <= k }

Latest(t) ==
    { k \in Matching(t) : \A j \in Matching(t) : store[j].ts <= store[k].ts }

\* lines 222-228: the result dict filled from the cached row
FromCache(row) ==
    [set |-> TRUE, success |-> row.success, username |-> row.username,
     password |-> row.password, response |-> row.response, cached |-> TRUE]

\* ------------------------------------------------------------- scan_target
\* where scan_target goes once scan_with_nmap is over (or is disabled)
AfterNmap == IF args.custom THEN "custom_begin" ELSE "returned"

\* scan_target as it would be with the probe called first
AfterParse_probeFirst ==
    IF args.custom THEN "custom_begin"
    ELSE IF args.nmap THEN "nmap_begin" ELSE "returned"

AfterParse == IF args.nmap THEN "nmap_begin" ELSE AfterNmap

Running == { j \in Tasks : pc[j] \notin {"queued", "returned", "raised"} }

\* the pool takes work items in submission order, at most args.threads at a time
Start(i) ==
    /\ mainpc = "scanning"
    /\ pc[i] = "queued"
    /\ \A j \in Tasks : j < i => pc[j] # "queued"
    /\ Cardinality(Running) < args.threads
    /\ pc' = [pc EXCEPT ![i] = "parse"]
    /\ UNCHANGED << cfgVars, mainVars, target, result, nmap, custom, cred,
                    store, files, hist >>

\* line 345: target = self.parse_url(url)
ParseUrl(i) ==
    /\ pc[i] = "parse"
    /\ IF parse_raises(targets[i])
       THEN /\ pc' = [pc EXCEPT ![i] = "raised"]
            /\ UNCHANGED target
       ELSE /\ target' = [target EXCEPT ![i] = parse_url(targets[i])]
            /\ pc' = [pc EXCEPT ![i] = AfterParse]
    /\ UNCHANGED << cfgVars, mainVars, result, nmap, custom, cred,
                    store, files, hist >>

\* ---------------------------------------------------------- scan_with_nmap
\* mutant: the --no-cache flag is ignored
UseCache_ignoresFlag == TRUE

\* line 212: the cache is consulted unless --no-cache
UseCache == ~args.no_cache

\* lines 202-228: build the result, consult the cache, return the cached row
NmapBegin(i) ==
    /\ pc[i] = "nmap_begin"
    /\ IF UseCache /\ Latest(target[i]) # {}
       THEN \E k \in Latest(target[i]) :
              /\ nmap' = [nmap EXCEPT ![i] = FromCache(store[k])]
              /\ pc' = [pc EXCEPT ![i] = AfterNmap]
              /\ hist' = [hist EXCEPT ![i].nmapEnd = "hit"]
              /\ UNCHANGED result
       ELSE /\ result' = [result EXCEPT ![i] = NewResult("", "")]
            /\ pc' = [pc EXCEPT ![i] = "nmap_prep"]
            /\ UNCHANGED << nmap, hist >>
    /\ UNCHANGED << cfgVars, mainVars, target, custom, cred, store, files >>

\* the cache SELECT itself fails (sqlite3.Error); lines 213-220 are outside
\* the try, so the error leaves scan_with_nmap
NmapCacheError(i) ==
    /\ pc[i] = "nmap_begin"
    /\ UseCache
    /\ pc' = [pc EXCEPT ![i] = "raised"]
    /\ hist' = [hist EXCEPT ![i].nmapEnd = "raised"]
    /\ UNCHANGED << cfgVars, mainVars, target, result, nmap, custom, cred,
                    store, files >>

\* lines 232-245: read self.nmap_script, write temp_<host>_<port>.nse
NmapPrep(i) ==
    /\ pc[i] = "nmap_prep"
    /\ env.fixed => env.prep
    /\ files' = [files EXCEPT ![temp_script(target[i])] = i]
    /\ pc' = [pc EXCEPT ![i] = "nmap_run"]
    /\ UNCHANGED << cfgVars, mainVars, target, result, nmap, custom, cred,
                    store, hist >>

\* the scanner script is missing or unreadable, or the temp script cannot be
\* opened: an exception before anything is written, caught at line 275
NmapPrepError(i) ==
    /\ pc[i] = "nmap_prep"
    /\ env.fixed => ~env.prep
    /\ result' = [result EXCEPT ![i].response = "Error: script"]
    /\ pc' = [pc EXCEPT ![i] = "nmap_save"]
    /\ UNCHANGED << cfgVars, mainVars, target, nmap, custom, cred,
                    store, files, hist >>

\* whether the scanner, run for task i, may end the way b
Behaves(i, b) == env.fixed => env.scan[temp_script(target[i])] = b

\* nmap reads the script when it starts: without it (deleted under it) it
\* prints its complaint about the script and finds nothing
Outputs(i) ==
    IF files[temp_script(target[i])] = 0
    THEN { "noscript" : b \in { o \in ScanOutputs : Behaves(i, o) } }
    ELSE { o \in ScanOutputs : Behaves(i, o) }

\* lines 260-268: classify the output, try to extract user:pass
Parsed(r, out) ==
    [r EXCEPT !.success  = out \in {"creds", "bare"},
              !.username = IF out = "creds" THEN "admin" ELSE "",
              !.password = IF out = "creds" THEN "admin" ELSE "",
              !.response = out]

\* line 256 returns: nmap has run and printed its output
NmapRun(i) ==
    /\ pc[i] = "nmap_run"
    /\ \E out \in Outputs(i) :
          result' = [result EXCEPT ![i] = Parsed(result[i], out)]
    /\ pc' = [pc EXCEPT ![i] = "nmap_cleanup"]
    /\ UNCHANGED << cfgVars, mainVars, target, nmap, custom, cred,
                    store, files, hist >>

\* mutant: the timeout handler returns the result without saving it
NmapTimeout_nosave(i) ==
    /\ pc[i] = "nmap_run"
    /\ Behaves(i, "Timeout")
    /\ nmap' = [nmap EXCEPT ![i] = [result[i] EXCEPT !.response = "Timeout"]]
    /\ result' = [result EXCEPT ![i] = None]
    /\ pc' = [pc EXCEPT ![i] = AfterNmap]
    /\ UNCHANGED << cfgVars, mainVars, target, custom, cred, store, files, hist >>

\* mutant: no handler for TimeoutExpired, the exception leaves scan_with_nmap
NmapTimeout_reraise(i) ==
    /\ pc[i] = "nmap_run"
    /\ Behaves(i, "Timeout")
    /\ pc' = [pc EXCEPT ![i] = "raised"]
    /\ hist' = [hist EXCEPT ![i].nmapEnd = "raised"]
    /\ UNCHANGED << cfgVars, mainVars, target, result, nmap, custom, cred,
                    store, files >>

\* lines 273-274: subprocess.TimeoutExpired
NmapTimeout(i) ==
    /\ pc[i] = "nmap_run"
    /\ Behaves(i, "Timeout")
    /\ result' = [result EXCEPT ![i].response = "Timeout"]
    /\ pc' = [pc EXCEPT ![i] = "nmap_save"]
    /\ UNCHANGED << cfgVars, mainVars, target, nmap, custom, cred,
                    store, files, hist >>

\* lines 275-276: any other exception of subprocess.run
NmapError(i) ==
    /\ pc[i] = "nmap_run"
    /\ Behaves(i, "Error")
    /\ result' = [result EXCEPT ![i].response = "Error: nmap"]
    /\ pc' = [pc EXCEPT ![i] = "nmap_save"]
    /\ UNCHANGED << cfgVars, mainVars, target, nmap, custom, cred,
                    store, files, hist >>

\* line 271: temp_script.unlink(missing_ok=True), the last line of the try
NmapCleanup(i) ==
    /\ pc[i] = "nmap_cleanup"
    /\ files' = [files EXCEPT ![temp_script(target[i])] = 0]
    /\ pc' = [pc EXCEPT ![i] = "nmap_save"]
    /\ UNCHANGED << cfgVars, mainVars, target, result, nmap, custom, cred,
                    store, hist >>

\* lines 278-279: _save_result(result); return result
NmapSave(i) ==
    /\ pc[i] = "nmap_save"
    /\ store' = save_result(target[i], "nmap-nse", result[i])
    /\ nmap' = [nmap EXCEPT ![i] = result[i]]
    /\ result' = [result EXCEPT ![i] = None]
    /\ pc' = [pc EXCEPT ![i] = AfterNmap]
    /\ hist' = [hist EXCEPT ![i].nmapEnd = "saved"]
    /\ UNCHANGED << cfgVars, mainVars, target, custom, cred, files >>

\* _save_result raises at line 278, outside the try: it leaves scan_with_nmap
NmapSaveError(i) ==
    /\ pc[i] = "nmap_save"
    /\ pc' = [pc EXCEPT ![i] = "raised"]
    /\ result' = [result EXCEPT ![i] = None]
    /\ hist' = [hist EXCEPT ![i].nmapEnd = "raised"]
    /\ UNCHANGED << cfgVars, mainVars, target, nmap, custom, cred,
                    store, files >>

\* -------------------------------------------------------- scan_with_custom
\* lines 283-294: results = [], import httpx (return [] when it is missing)
CustomBegin(i) ==
    /\ pc[i] = "custom_begin"
    /\ IF env.httpx
       THEN /\ cred' = [cred EXCEPT ![i] = 1]
            /\ pc' = [pc EXCEPT ![i] = "custom_req"]
       ELSE /\ pc' = [pc EXCEPT ![i] = "returned"]
            /\ UNCHANGED cred
    /\ UNCHANGED << cfgVars, mainVars, target, result, nmap, custom,
                    store, files, hist >>

\* lines 297-306: the dict of one attempt
Attempt(c) == NewResult(DEFAULT_CREDS[c].username, DEFAULT_CREDS[c].password)

\* whether the GET with credential c may end the way b
Answers(c, b) == env.fixed => env.http[c] = b

\* lines 338-341: the rate-limit sleep, then the next credential of the list
\* or, after the last one, return results
\* (r is the attempt's dict as the iteration leaves it; a local, it is gone
\* when the method returns)
NextCred(i, r) ==
    IF cred[i] < NumCreds
    THEN /\ cred' = [cred EXCEPT ![i] = @ + 1]
         /\ pc' = [pc EXCEPT ![i] = "custom_req"]
         /\ result' = [result EXCEPT ![i] = r]
    ELSE /\ pc' = [pc EXCEPT ![i] = "returned"]
         /\ result' = [result EXCEPT ![i] = None]
         /\ UNCHANGED cred

\* lines 316-329: the GET answers 200 with a success marker in its body
CustomSuccess(i) ==
    /\ pc[i] = "custom_req"
    /\ Answers(cred[i], "ok")
    /\ LET r == [Attempt(cred[i]) EXCEPT !.success = TRUE,
                                         !.response = "HTTP 200 - Authenticated"]
       IN  /\ result' = [result EXCEPT ![i] = r]
           /\ custom' = [custom EXCEPT ![i] = Append(@, r)]
    /\ pc' = [pc EXCEPT ![i] = "custom_save"]
    /\ hist' = [hist EXCEPT ![i].requests = @ + 1,
                            ![i].okAt = IF @ = 0 THEN cred[i] ELSE @]
    /\ UNCHANGED << cfgVars, mainVars, target, nmap, cred, store, files >>

\* the GET answers anything else: client.close(), next credential
CustomReject(i) ==
    /\ pc[i] = "custom_req"
    /\ Answers(cred[i], "reject")
    /\ NextCred(i, Attempt(cred[i]))
    /\ hist' = [hist EXCEPT ![i].requests = @ + 1]
    /\ UNCHANGED << cfgVars, mainVars, target, nmap, custom, store, files >>

\* mutant: a transport error ends the probe (return instead of going on)
CustomTransportError_aborts(i) ==
    /\ pc[i] = "custom_req"
    /\ Answers(cred[i], "error")
    /\ result' = [result EXCEPT ![i] = None]
    /\ pc' = [pc EXCEPT ![i] = "returned"]
    /\ hist' = [hist EXCEPT ![i].requests = @ + 1]
    /\ UNCHANGED << cfgVars, mainVars, target, nmap, custom, cred, store, files >>

\* lines 335-336: the GET raises; the error text becomes the response of the
\* attempt's dict
CustomTransportError(i) ==
    /\ pc[i] = "custom_req"
    /\ Answers(cred[i], "error")
    /\ NextCred(i, [Attempt(cred[i]) EXCEPT !.response = "Error"])
    /\ hist' = [hist EXCEPT ![i].requests = @ + 1]
    /\ UNCHANGED << cfgVars, mainVars, target, nmap, custom, store, files >>

\* lines 330-331: _save_result(result); break
CustomSave(i) ==
    /\ pc[i] = "custom_save"
    /\ store' = save_result(target[i], "custom-basic", result[i])
    /\ pc' = [pc EXCEPT ![i] = "returned"]
    /\ result' = [result EXCEPT ![i] = None]
    /\ UNCHANGED << cfgVars, mainVars, target, nmap, custom, cred, files, hist >>

\* _save_result raises at line 330, inside the try: line 335 catches it, sets
\* the response of the dict (the one already appended to results) and the
\* loop goes on
CustomSaveError(i) ==
    /\ pc[i] = "custom_save"
    /\ custom' = [custom EXCEPT ![i][Len(custom[i])].response = "Error"]
    /\ NextCred(i, [result[i] EXCEPT !.response = "Error"])
    /\ UNCHANGED << cfgVars, mainVars, target, nmap, store, files, hist >>

\* ------------------------------------------------------------ scan_targets
Done(i) == pc[i] \in {"returned", "raised"}

\* lines 393-394, 417-418: any test of the target was successful
AnySuccess(i) ==
    \/ nmap[i].set /\ nmap[i].success
    \/ \E k \in DOMAIN custom[i] : custom[i][k].success

\* mutant: the except clause of the loop swallows the exception without
\* counting the target
Collect_dropsException(i) ==
    /\ mainpc = "scanning"
    /\ Done(i)
    /\ i \notin counted
    /\ counted' = counted \cup {i}
    /\ IF pc[i] = "returned" /\ AnySuccess(i)
       THEN /\ successful' = successful + 1
            /\ failed' = failed
            /\ hist' = [hist EXCEPT ![i].verdict = "successful"]
       ELSE IF pc[i] = "returned"
       THEN /\ failed' = failed + 1
            /\ successful' = successful
            /\ hist' = [hist EXCEPT ![i].verdict = "failed"]
       ELSE UNCHANGED << successful, failed, hist >>
    /\ UNCHANGED << cfgVars, pc, target, result, nmap, custom, cred,
                    store, files, mainpc >>

\* lines 387-405, 413-424: one turn of the as_completed loop
Collect(i) ==
    /\ mainpc = "scanning"
    /\ Done(i)
    /\ i \notin counted
    /\ counted' = counted \cup {i}
    /\ IF pc[i] = "returned" /\ AnySuccess(i)
       THEN /\ successful' = successful + 1
            /\ failed' = failed
            /\ hist' = [hist EXCEPT ![i].verdict = "successful"]
       ELSE /\ failed' = failed + 1
            /\ successful' = successful
            /\ hist' = [hist EXCEPT ![i].verdict = "failed"]
    /\ UNCHANGED << cfgVars, pc, target, result, nmap, custom, cred,
                    store, files, mainpc >>

\* line 429: every future was yielded, the executor has shut down
Return ==
    /\ mainpc = "scanning"
    /\ counted = Tasks
    /\ mainpc' = "returned"
    /\ UNCHANGED << cfgVars, pc, target, result, nmap, custom, cred,
                    store, files, successful, failed, counted, hist >>

Next ==
    \/ \E i \in Tasks :
         \/ Start(i)
         \/ ParseUrl(i)
         \/ NmapBegin(i)
         \/ NmapCacheError(i)
         \/ NmapPrep(i)
         \/ NmapPrepError(i)
         \/ NmapRun(i)
         \/ NmapTimeout(i)
         \/ NmapError(i)
         \/ NmapCleanup(i)
         \/ NmapSave(i)
         \/ NmapSaveError(i)
         \/ CustomBegin(i)
         \/ CustomSuccess(i)
         \/ CustomReject(i)
         \/ CustomTransportError(i)
         \/ CustomSave(i)
         \/ CustomSaveError(i)
         \/ Collect(i)
    \/ Return

Spec == Init /\ [][Next]_vars


\* ------------------------------------------------ one method at a time
\* Runs with --no-nmap: scan_target calls scan_with_custom only.  The servers
\* answer in any way, or the same way every time a credential is tried.
InitProbe ==
    /\ args \in [nmap : {FALSE}, custom : {TRUE}, no_cache : {FALSE},
                 threads : {1, NumTargets}]
    /\ env \in { FreeEnv(h) : h \in BOOLEAN }
                \cup { e \in FixedEnvs :
                         /\ e.httpx /\ e.prep
                         /\ \A f \in TempFiles : e.scan[f] = "nothing" }
    /\ targets \in [Tasks -> Urls]
    /\ InitRest

NextProbe ==
    \/ \E i \in Tasks :
         \/ Start(i)
         \/ ParseUrl(i)
         \/ CustomBegin(i)
         \/ CustomSuccess(i)
         \/ CustomReject(i)
         \/ CustomTransportError(i)
         \/ CustomSave(i)
         \/ CustomSaveError(i)
         \/ Collect(i)
    \/ Return

SpecProbe == InitProbe /\ [][NextProbe]_vars

\* Runs with --no-custom: scan_target calls scan_with_nmap only.
InitScan ==
    /\ args \in [nmap : {TRUE}, custom : {FALSE}, no_cache : BOOLEAN,
                 threads : {1, NumTargets}]
    /\ env \in { FreeEnv(TRUE) }
    /\ targets \in [Tasks -> Urls]
    /\ InitRest

NextScan ==
    \/ \E i \in Tasks :
         \/ Start(i)
         \/ ParseUrl(i)
         \/ NmapBegin(i)
         \/ NmapCacheError(i)
         \/ NmapPrep(i)
         \/ NmapPrepError(i)
         \/ NmapRun(i)
         \/ NmapTimeout(i)
         \/ NmapError(i)
         \/ NmapCleanup(i)
         \/ NmapSave(i)
         \/ NmapSaveError(i)
         \/ Collect(i)
    \/ Return

SpecScan == InitScan /\ [][NextScan]_vars

\* ------------------------------------------------- runs on a used Store
\* line 67 names the database by the second the run starts and line 95
\* creates the table only if it is missing: a run started within the same
\* second as another one opens a Store that holds that run's rows already.
\* Those rows are of either method and of any target; a writer reads the
\* clock before its INSERT is committed, so their stamps may be out of
\* insertion order or equal.
PriorResults ==
    { [username |-> "admin", password |-> "admin", success |-> TRUE,
       response |-> "found"],
      [username |-> "", password |-> "", success |-> FALSE,
       response |-> "nothing"] }

PriorRows(n) ==
    { Row(parse_url(u), m, r, ts) :
        u \in { v \in Urls : ~parse_raises(v) },
        m \in {"nmap-nse", "custom-basic"},
        r \in PriorResults,
        ts \in 1..n }

PriorStores == UNION { [1..n -> PriorRows(n)] : n \in 0..MaxPrior }

InitStore ==
    /\ args \in [nmap : {TRUE}, custom : {FALSE}, no_cache : {FALSE},
                 threads : {NumTargets}]
    /\ env \in { FreeEnv(TRUE) }
    /\ targets \in [Tasks -> Urls]
    /\ pc = [i \in Tasks |-> "queued"]
    /\ target = [i \in Tasks |-> NoTarget]
    /\ result = [i \in Tasks |-> None]
    /\ nmap = [i \in Tasks |-> None]
    /\ custom = [i \in Tasks |-> << >>]
    /\ cred = [i \in Tasks |-> 0]
    /\ store \in PriorStores
    /\ files = [f \in TempFiles |-> 0]
    /\ successful = 0
    /\ failed = 0
    /\ counted = {}
    /\ mainpc = "scanning"
    /\ hist = [i \in Tasks |-> NoHist]

SpecStore == InitStore /\ [][NextScan]_vars

\* ------------------------------------------------- fixed-behaviour runs
\* Runs in which the scanner and the servers behave the same way every time
\* and the Store never fails: the runs whose counts can be compared across
\* pool sizes.
InitFixed ==
    /\ args \in [nmap : BOOLEAN, custom : BOOLEAN, no_cache : BOOLEAN,
                 threads : {1, NumTargets}]
    /\ env \in { e \in FixedEnvs :
                   /\ e.httpx
                   /\ \A f, g \in TempFiles : e.scan[f] = e.scan[g] }
    /\ targets \in [Tasks -> Urls]
    /\ InitRest

NextFixed ==
    \/ \E i \in Tasks :
         \/ Start(i)
         \/ ParseUrl(i)
         \/ NmapBegin(i)
         \/ NmapPrep(i)
         \/ NmapPrepError(i)
         \/ NmapRun(i)
         \/ NmapTimeout(i)
         \/ NmapError(i)
         \/ NmapCleanup(i)
         \/ NmapSave(i)
         \/ CustomBegin(i)
         \/ CustomSuccess(i)
         \/ CustomReject(i)
         \/ CustomTransportError(i)
         \/ CustomSave(i)
         \/ Collect(i)
    \/ Return

SpecFixed == InitFixed /\ [][NextFixed]_vars

\* What scan_targets returns when the pool has one worker, in a fixed
\* environment: the tasks run one after the other in list order, each scanner
\* run finds its own temp script, and a cached row carries what the scanner
\* says for that host and port anyway.
SeqSuccess(u) ==
    /\ ~parse_raises(u)
    /\ \/ /\ args.nmap
          /\ env.prep
          /\ env.scan[temp_script(parse_url(u))] \in {"creds", "bare"}
       \/ /\ args.custom
          /\ env.httpx
          /\ \E c \in Creds : env.http[c] = "ok"

SeqCounts ==
    LET ok == { i \in Tasks : SeqSuccess(targets[i]) }
    IN  << Cardinality(ok), NumTargets - Cardinality(ok) >>

\* SeqCounts is what the model itself returns with a pool of one worker
SeqCountsIsPoolOfOne ==
    (args.threads = 1 /\ mainpc = "returned") => << successful, failed >> = SeqCounts


\* -------------------------------------------------------------------- main
\* lines 642 and 431-460: generate_reports reads the successful rows of the
\* Store and renders them (or returns early); nothing of the state changes
GenerateReports ==
    /\ mainpc = "returned"
    /\ mainpc' = "reported"
    /\ UNCHANGED << cfgVars, pc, target, result, nmap, custom, cred,
                    store, files, successful, failed, counted, hist >>

\* lines 437-441, 493-495, 511: the SELECT or the writing of a report file
\* raises; main has no handler around line 642, the exception ends the process
GenerateReportsError ==
    /\ mainpc = "returned"
    /\ mainpc' = "aborted"
    /\ UNCHANGED << cfgVars, pc, target, result, nmap, custom, cred,
                    store, files, successful, failed, counted, hist >>

\* lines 645-660: the final summary is printed
Summary ==
    /\ mainpc = "reported"
    /\ mainpc' = "summary"
    /\ UNCHANGED << cfgVars, pc, target, result, nmap, custom, cred,
                    store, files, successful, failed, counted, hist >>

\* A whole run of main with --no-custom, from the call of scan_targets on.
\* Every thread of the pool and the main thread go on as long as they can.
NextRun ==
    \/ NextScan
    \/ GenerateReports
    \/ GenerateReportsError
    \/ Summary

SpecRun == InitScan /\ [][NextRun]_vars /\ WF_vars(NextRun)

\* every fair run gets to the end of main: to the summary, or to the exception
\* of generate_reports
RunEnds ==
    <>(mainpc \in {"summary", "aborted"})


\* ================================================================== claims

\* C1: scan_with_custom issues at most len(DEFAULT_CREDS) requests, tries the
\* credentials in list order, and issues no request after the first credential
\* classified as success: requests <= index of the first success.
C1_StopsAtFirstSuccess ==
    \A i \in Tasks :
        /\ hist[i].requests <= NumCreds
        /\ pc[i] = "custom_req" => cred[i] = hist[i].requests + 1
        /\ hist[i].okAt # 0 => hist[i].requests <= hist[i].okAt

\* C2: a failing Store append is never swallowed: a step in which
\* _save_result was attempted and no row was added takes the task out of the
\* scan method by the exception, in the external-scan path and in the probe
\* path alike.
C2_WriteErrorPropagates ==
    [][ \A i \in Tasks :
          ( /\ pc[i] \in {"nmap_save", "custom_save"}
            /\ pc'[i] # pc[i]
            /\ store' = store )
          => pc'[i] = "raised" ]_vars

\* C3: once scan_with_nmap has returned, the temp script it wrote is gone.
C3_TempScriptDeleted ==
    \A i \in Tasks :
        hist[i].nmapEnd = "saved" => files[temp_script(target[i])] # i

\* C4 as claimed: the 'nmap-nse' rows are as many as the calls of
\* scan_with_nmap that ended without taking the cache-hit path.
C4_OneRecordPerCall ==
    Cardinality({ k \in DOMAIN store : store[k].method = "nmap-nse" })
      = Cardinality({ i \in Tasks : hist[i].nmapEnd \in {"saved", "raised"} })

\* C4 as amended: the 'nmap-nse' rows are as many as the calls of
\* scan_with_nmap that returned a result that is not a cached one; a call
\* returning a cached result and a call left by a Store error add none.
C4_OneRecordPerReturnedCall ==
    Cardinality({ k \in DOMAIN store : store[k].method = "nmap-nse" })
      = Cardinality({ i \in Tasks : nmap[i].set /\ ~nmap[i].cached })

\* a call returned from the cache while another one had saved a timeout
C4_Witness ==
    \E i, j \in Tasks :
        /\ nmap[i].set /\ nmap[i].cached
        /\ nmap[j].set /\ ~nmap[j].cached /\ nmap[j].response = "Timeout"
        /\ Cardinality({ k \in DOMAIN store : store[k].method = "nmap-nse" }) = 1

\* C5 as claimed: with caching enabled and a matching 'nmap-nse' row in the
\* Store, scan_with_nmap returns the latest such row tagged cached, touching
\* neither the temp script nor the scanner; with --no-cache it never uses the
\* Store and always reaches the scanner invocation.
C5_CacheHitOrInvoke ==
    /\ [][ \A i \in Tasks :
             (pc[i] = "nmap_begin" /\ pc'[i] # "nmap_begin") =>
                IF ~args.no_cache /\ Latest(target[i]) # {}
                THEN /\ \E k \in Latest(target[i]) : nmap'[i] = FromCache(store[k])
                     /\ pc'[i] = AfterNmap
                     /\ files' = files
                     /\ store' = store
                ELSE args.no_cache => pc'[i] = "nmap_prep" ]_vars
    /\ [](\A i \in Tasks :
             (args.no_cache /\ pc[i] = "nmap_save")
                => result[i].response # "Error: script")

\* C5 as amended: the cached row is returned unless the lookup itself fails
\* (then the error leaves the method and nothing else changes); with
\* --no-cache the Store is never used and the method always goes on to
\* prepare the temp script, invoking the scanner unless that preparation
\* fails.
C5_CacheHitOrAttempt ==
    /\ [][ \A i \in Tasks :
             (pc[i] = "nmap_begin" /\ pc'[i] # "nmap_begin") =>
                IF ~args.no_cache /\ Latest(target[i]) # {}
                THEN \/ /\ \E k \in Latest(target[i]) : nmap'[i] = FromCache(store[k])
                        /\ pc'[i] = AfterNmap
                        /\ files' = files
                        /\ store' = store
                     \/ /\ pc'[i] = "raised"
                        /\ nmap' = nmap /\ files' = files /\ store' = store
                ELSE args.no_cache => pc'[i] = "nmap_prep" ]_vars
    /\ [][ \A i \in Tasks :
             (args.no_cache /\ pc[i] = "nmap_prep" /\ pc'[i] # "nmap_prep") =>
                \/ /\ pc'[i] = "nmap_run"
                   /\ files'[temp_script(target[i])] = i
                \/ /\ pc'[i] = "nmap_save"
                   /\ result'[i].response = "Error: script"
                   /\ files' = files ]_vars

\* a call returned a cached finding and its temp script does not exist
C5_Witness ==
    \E i \in Tasks :
        /\ hist[i].nmapEnd = "hit"
        /\ nmap[i].cached /\ nmap[i].success /\ nmap[i].username = "admin"
        /\ files[temp_script(target[i])] = 0

\* C6: tasks share nothing but the Store; in particular, from the moment a
\* task has written its temp script to the end of its scanner invocation the
\* script is there and is the one this task wrote.
C6_ScriptNotShared ==
    \A i \in Tasks :
        pc[i] = "nmap_run" => files[temp_script(target[i])] = i

\* C7: in a fixed environment scan_targets returns, under every interleaving
\* and with any pool size, the counts a pool of one worker returns.
C7_PoolSizeIrrelevant ==
    mainpc = "returned" => << successful, failed >> = SeqCounts

\* C8: an exception in one task aborts nothing: the run can always go on
\* until scan_targets returns, it returns only when every task has ended,
\* every target is counted exactly once, a raising one as failed, and
\* successful + failed = K.
C8_FailuresIsolated ==
    /\ mainpc = "scanning" => ENABLED Next
    /\ mainpc = "returned" =>
          /\ \A i \in Tasks : Done(i)
          /\ counted = Tasks
          /\ successful + failed = NumTargets
    /\ \A i \in counted : pc[i] = "raised" => hist[i].verdict = "failed"
    /\ successful = Cardinality({ i \in counted : hist[i].verdict = "successful" })
    /\ failed = Cardinality({ i \in counted : hist[i].verdict = "failed" })

\* scan_targets returned after one task raised inside scan_with_nmap and
\* another one found credentials
C8_Witness ==
    /\ mainpc = "returned"
    /\ \E i, j \in Tasks :
          /\ pc[i] = "raised" /\ hist[i].nmapEnd = "raised"
          /\ pc[j] = "returned" /\ hist[j].verdict = "successful"

\* C9: a request that ends without a success, by a transport error as by a
\* refusal, sends the loop on to the next credential of the list, the error
\* text left in the attempt's dict; the probe is never cut short without a
\* success, a success it classifies is in its results, and it never raises.
C9_TransportErrorContinues ==
    /\ [][ \A i \in Tasks :
             (pc[i] = "custom_req" /\ pc'[i] # "custom_save" /\ pc'[i] # pc[i])
                => (cred[i] = NumCreds /\ pc'[i] = "returned") ]_vars
    /\ [][ \A i \in Tasks :
             (pc[i] = "custom_req" /\ pc'[i] = "custom_req" /\ cred'[i] # cred[i])
                => /\ cred'[i] = cred[i] + 1
                   /\ custom'[i] = custom[i]
                   /\ result'[i] \in { Attempt(cred[i]),
                                       [Attempt(cred[i]) EXCEPT !.response = "Error"] }
                   /\ (env.fixed /\ env.http[cred[i]] = "error")
                         => result'[i].response = "Error" ]_vars
    /\ [](\A i \in Tasks :
             /\ (pc[i] = "returned" /\ hist[i].requests > 0)
                   => (hist[i].okAt # 0 \/ hist[i].requests = NumCreds)
             /\ hist[i].okAt # 0 => \E k \in DOMAIN custom[i] : custom[i][k].success
             /\ pc[i] = "raised" => hist[i].requests = 0)

\* where the first credential always meets a transport error and the second
\* is accepted, a probe has returned the second credential as its finding
C9_Witness ==
    /\ env.fixed /\ env.http[1] = "error" /\ env.http[2] = "ok"
    /\ \E i \in Tasks :
          /\ pc[i] = "returned"
          /\ hist[i].okAt = 2 /\ hist[i].requests = 2
          /\ \E k \in DOMAIN custom[i] :
                /\ custom[i][k].success
                /\ custom[i][k].username = DEFAULT_CREDS[2].username
                /\ custom[i][k].password = DEFAULT_CREDS[2].password

\* C10 as claimed: a timeout or any other error of the invocation never
\* leaves scan_with_nmap; the method persists and returns a record with
\* success false and the evidence 'Timeout' or the error text.
C10_TimeoutRecorded ==
    [][ \A i \in Tasks :
          /\ pc[i] \in {"nmap_prep", "nmap_run"} => pc'[i] # "raised"
          /\ (pc[i] = "nmap_prep" /\ pc'[i] = "nmap_save")
                => (~result'[i].success /\ result'[i].response = "Error: script")
          /\ (pc[i] = "nmap_run" /\ pc'[i] = "nmap_save")
                => ( /\ ~result'[i].success
                     /\ result'[i].response \in {"Timeout", "Error: nmap"} )
          /\ ( /\ pc[i] = "nmap_save"
               /\ result[i].response \in {"Timeout", "Error: nmap", "Error: script"}
               /\ pc'[i] # "nmap_save" )
                => /\ pc'[i] = AfterNmap
                   /\ nmap'[i] = result[i]
                   /\ store' = Append(store, Row(target[i], "nmap-nse", result[i],
                                                 Len(store) + 1)) ]_vars

\* C10 as amended: the same, except that the append of that record may fail,
\* and then the Store's error leaves scan_with_nmap and nothing is persisted.
C10_TimeoutRecordedUnlessStoreFails ==
    [][ \A i \in Tasks :
          /\ pc[i] \in {"nmap_prep", "nmap_run"} => pc'[i] # "raised"
          /\ (pc[i] = "nmap_prep" /\ pc'[i] = "nmap_save")
                => (~result'[i].success /\ result'[i].response = "Error: script")
          /\ (pc[i] = "nmap_run" /\ pc'[i] = "nmap_save")
                => ( /\ ~result'[i].success
                     /\ result'[i].response \in {"Timeout", "Error: nmap"} )
          /\ ( /\ pc[i] = "nmap_save"
               /\ result[i].response \in {"Timeout", "Error: nmap", "Error: script"}
               /\ pc'[i] # "nmap_save" )
                => \/ /\ pc'[i] = AfterNmap
                      /\ nmap'[i] = result[i]
                      /\ store' = Append(store, Row(target[i], "nmap-nse", result[i],
                                                    Len(store) + 1))
                   \/ /\ pc'[i] = "raised"
                      /\ store' = store ]_vars

\* a call whose scanner timed out has returned and its record is in the Store
C10_Witness ==
    \E i \in Tasks :
        /\ hist[i].nmapEnd = "saved"
        /\ nmap[i].response = "Timeout" /\ ~nmap[i].success
        /\ \E k \in DOMAIN store :
              /\ store[k].method = "nmap-nse"
              /\ store[k].response = "Timeout"
              /\ ~store[k].success
              /\ store[k].host = target[i].host

\* C11: every run that reaches the scanning phase eventually prints the final
\* summary, whatever the targets' outcomes and whatever happens while the
\* reports are generated.
C11_SummaryAlwaysPrinted ==
    <>(mainpc = "summary")

\* C12: with both methods enabled a task is in scan_with_custom only once its
\* scan_with_nmap has returned (a saved or a cached result), and a request of
\* the probe is issued only then, whatever the other tasks are doing.
C12_ProbeAfterScan ==
    /\ [](\A i \in Tasks :
            ( /\ args.nmap /\ args.custom
              /\ pc[i] \in {"custom_begin", "custom_req", "custom_save"} )
            => /\ hist[i].nmapEnd \in {"saved", "hit"}
               /\ nmap[i].set)
    /\ [][ \A i \in Tasks :
             hist'[i].requests # hist[i].requests
             => /\ pc[i] = "custom_req"
                /\ hist'[i].requests = hist[i].requests + 1
                /\ args.nmap => ( /\ hist[i].nmapEnd \in {"saved", "hit"}
                                  /\ nmap[i].set
                                  /\ nmap' = nmap ) ]_vars

\* with both methods enabled, a task has issued a probe request after its
\* scanner run was saved, while another task's scanner is still running
C12_Witness ==
    /\ args.nmap /\ args.custom
    /\ \E i, j \in Tasks :
          /\ i # j
          /\ hist[i].requests > 0 /\ hist[i].nmapEnd = "saved"
          /\ pc[i] = "custom_req"
          /\ pc[j] = "nmap_run"

\* C13: whatever rows the Store holds and in whatever order they were
\* inserted, a cache lookup that finds something returns a row of the
\* target's host, port and proto and of method 'nmap-nse' whose stamp no
\* other such row exceeds, and a lookup finds nothing only if there is no
\* such row.
C13_LookupReturnsLatest ==
    [][ \A i \in Tasks :
          LET hits == { k \in DOMAIN store :
                          /\ store[k].host = target[i].host
                          /\ store[k].port = target[i].port
                          /\ store[k].proto = target[i].proto
                          /\ store[k].method = "nmap-nse" }
          IN  /\ (pc[i] = "nmap_begin" /\ hist'[i].nmapEnd = "hit")
                 => \E k \in hits :
                      /\ \A j \in hits : store[j].ts <= store[k].ts
                      /\ nmap'[i].cached
                      /\ nmap'[i].success = store[k].success
                      /\ nmap'[i].username = store[k].username
                      /\ nmap'[i].password = store[k].password
                      /\ nmap'[i].response = store[k].response
              /\ (pc[i] = "nmap_begin" /\ pc'[i] = "nmap_prep" /\ ~args.no_cache)
                 => hits = {} ]_vars

\* a lookup returned the finding of the row stamped later although a row of
\* the same key without a finding was inserted after it, and a probe row of
\* that key is in the Store too
C13_Witness ==
    \E i \in Tasks :
        /\ hist[i].nmapEnd = "hit"
        /\ nmap[i].cached /\ nmap[i].success /\ nmap[i].response = "found"
        /\ Len(store) >= 2
        /\ store[1].method = "nmap-nse" /\ store[2].method = "nmap-nse"
        /\ store[1].host = target[i].host /\ store[2].host = target[i].host
        /\ store[1].port = target[i].port /\ store[2].port = target[i].port
        /\ store[1].ts = 2 /\ store[2].ts = 1
        /\ store[1].success /\ ~store[2].success

\* C14: when scan_targets has returned, every target counted as successful
\* has a row with success true in the Store for its host, port and proto.
C14_SuccessesAreStored ==
    mainpc = "returned" =>
        \A i \in Tasks :
            hist[i].verdict = "successful" =>
                \E k \in DOMAIN store :
                    /\ store[k].success
                    /\ store[k].host = target[i].host
                    /\ store[k].port = target[i].port
                    /\ store[k].proto = target[i].proto

====
